---- MODULE Spec2Model ----
(***************************************************************************)
(* ConduitClient (getsentry/conduit-client): the streaming-session client. *)
(* One client instance, the EventSource objects it creates, the negotiation *)
(* requests it has in flight, and the application and the transport as the  *)
(* environment.  The handlers are modelled from src/src/client.ts; the      *)
(* negotiation (startStream), buildUrl and connect from the revision of the *)
(* same file that takes the connection URL from the negotiation response    *)
(* (src/unnamed/part_001), which is the revision the tests and the README   *)
(* describe.  The open handler with onConnect/onReconnect exists only in    *)
(* the tests and the spec and is modelled from them.                        *)
(***************************************************************************)
EXTENDS Integers, Sequences, FiniteSets, TLC

(***************************************************************************)
(* Bounds of the model.                                                     *)
(***************************************************************************)
MaxSeq == 2
MaxConns == 2

(***************************************************************************)
(* Program constants and the values that stand for JavaScript's undefined.  *)
(* MAX_SEEN_TRACKING is 2048 in the source; the model scales it down so     *)
(* that the capacity rule (size > MAX_SEEN_TRACKING => clear) is exercised. *)
(* The comparison and the clear are modelled as coded.                      *)
(***************************************************************************)
MAX_SEEN_TRACKING == 1

Null == 0                  \* eventSource: EventSource | null
Undefined == "undefined"   \* an absent string (lastEventId, currentChannelId, payload)
NoSeq == -1                \* lastSeq: number | undefined
NoExpiry == 0              \* tokenExpiresAt: number | undefined (never the number 0)

MsgIds == {"m1", "m2", "m3"}
Seqs == 0..MaxSeq
Payloads == {"p", "q"}
Channels == {"c1", "c2"}
\* event.lastEventId: "" is what an event without an id field carries
EventIds == {"", "e1"}

StreamPhase == {"PHASE_START", "PHASE_DELTA", "PHASE_END", "PHASE_ERROR"}

\* EventSource.CONNECTING / OPEN / CLOSED
CONNECTING == 0
OPEN == 1
CLOSED == 2

(***************************************************************************)
(* Inbound events.  data is text: "garbage" is not JSON, "null" is the JSON *)
(* text null, "envelope" is a JSON object carrying the envelope fields.     *)
(***************************************************************************)
StreamEnvelope ==
    [message_id : MsgIds, sequence : Seqs, phase : StreamPhase,
     payload : Payloads \cup {Undefined}]

NoEnvelope == [message_id |-> Undefined, sequence |-> 0, phase |-> "none", payload |-> Undefined]

StreamEvents ==
    [lastEventId : EventIds, data : {"envelope"}, env : StreamEnvelope]
    \cup [lastEventId : EventIds, data : {"garbage", "null"}, env : {NoEnvelope}]

ControlTypes == {"server_draining", "other"}

ControlEvents ==
    [lastEventId : EventIds, data : {"envelope"}, control_type : ControlTypes]
    \cup [lastEventId : EventIds, data : {"garbage", "null"}, control_type : {"none"}]

(***************************************************************************)
(* Credentials.  parts is the number of dot-separated parts; body says what *)
(* atob and JSON.parse make of the second part: "claims" when it decodes to *)
(* an object, "urlsafe" when it is base64url text with a character atob     *)
(* rejects ('-' or '_'), "none" when there is no such part; hasExp and exp  *)
(* are the exp claim the credential carries, in seconds.                    *)
(***************************************************************************)
Tokens ==
    { [parts |-> 1, body |-> "none", hasExp |-> FALSE, exp |-> 0],
      [parts |-> 3, body |-> "claims", hasExp |-> FALSE, exp |-> 0],
      [parts |-> 3, body |-> "claims", hasExp |-> TRUE, exp |-> 0],
      [parts |-> 3, body |-> "claims", hasExp |-> TRUE, exp |-> 1],
      [parts |-> 3, body |-> "urlsafe", hasExp |-> TRUE, exp |-> 1] }

NoToken == [parts |-> 0, body |-> "none", hasExp |-> FALSE, exp |-> 0]

\* Date.now() in milliseconds
Nows == {0, 1000}

\* endpoint URLs a negotiation returns, without and with a query of their own
Urls == {"https://h/events", "https://h/events?region=eu"}

(***************************************************************************)
(* Negotiation responses: the transport status and the fields of            *)
(* data.conduit (absent fields are NoToken and Undefined).                  *)
(***************************************************************************)
Responses ==
    [ok : {TRUE}, conduit : {TRUE}, token : Tokens, channel_id : Channels, url : Urls]
    \cup { [ok |-> FALSE, conduit |-> FALSE, token |-> NoToken, channel_id |-> Undefined, url |-> Undefined],
           [ok |-> TRUE, conduit |-> FALSE, token |-> NoToken, channel_id |-> Undefined, url |-> Undefined],
           [ok |-> TRUE, conduit |-> TRUE, token |-> NoToken, channel_id |-> "c1", url |-> "https://h/events"],
           [ok |-> TRUE, conduit |-> TRUE, token |-> [parts |-> 1, body |-> "none", hasExp |-> FALSE, exp |-> 0],
            channel_id |-> Undefined, url |-> "https://h/events"],
           [ok |-> TRUE, conduit |-> TRUE, token |-> [parts |-> 1, body |-> "none", hasExp |-> FALSE, exp |-> 0],
            channel_id |-> "c1", url |-> Undefined] }

(***************************************************************************)
(* Headers of the negotiation request.  A header map gives every name a     *)
(* value or Undefined when the map has no such key; given is FALSE when the *)
(* configuration has no startStreamHeaders at all.                          *)
(***************************************************************************)
HeaderNames == {"Content-Type", "X-CSRF-TOKEN"}

HeaderMaps ==
    {h \in [HeaderNames -> {Undefined, "application/x-www-form-urlencoded", "csrf-token-123"}] :
        /\ h["Content-Type"] \in {Undefined, "application/x-www-form-urlencoded"}
        /\ h["X-CSRF-TOKEN"] \in {Undefined, "csrf-token-123"}}

NoHeaders == [given |-> FALSE, map |-> [k \in HeaderNames |-> Undefined]]

CallerHeaders == {NoHeaders} \cup [given : {TRUE}, map : HeaderMaps]

DefaultHeaders ==
    [k \in HeaderNames |-> IF k = "Content-Type" THEN "application/json" ELSE Undefined]

\* a merge in which the default wins over the caller's value
RequestHeadersDefaultFirst(caller) ==
    [k \in HeaderNames |->
        IF DefaultHeaders[k] # Undefined THEN DefaultHeaders[k]
        ELSE IF caller.given THEN caller.map[k] ELSE Undefined]

\* the header map of the request: the default overridden by the caller's headers
RequestHeaders(caller) ==
    [k \in HeaderNames |->
        IF caller.given /\ caller.map[k] # Undefined THEN caller.map[k]
        ELSE DefaultHeaders[k]]

NoRequest == [method |-> "-", headers |-> [k \in HeaderNames |-> Undefined]]

\* startStream: the fetch of the negotiation endpoint
StartStreamRequest(caller) == [method |-> "POST", headers |-> RequestHeaders(caller)]

VARIABLES
    startStreamHeaders, \* config.startStreamHeaders
    request,           \* the negotiation request the last step issued, if any
    eventSource,       \* the held connection (an index into conns) or Null
    connecting,        \* the single-flight guard
    lastEventId,       \* resume token
    lastSeq,           \* highest accepted sequence
    seenIds,           \* message ids already seen
    tokenExpiresAt,    \* expiry of the last negotiated credential (ms) or NoExpiry
    currentChannelId,  \* channel of the active / most recent connection
    hasConnected,      \* an open signal has been received before
    conns,             \* every EventSource created so far
    inflight,          \* negotiation requests issued and not yet answered
    fired,             \* callbacks invoked by the last step, in order
    lastOp,            \* which operation the last step was, and how it ended
    lastIn,            \* the data-stream envelope the last step handled, if any
    onConnects,        \* how often onConnect has been invoked (counted up to 2)
    lastAnswer,        \* the negotiation response the last step received, if any
    drain,             \* "pending" from a server_draining event until the negotiation
                       \* it started is answered, "answered" from then to the next answer
    opened,            \* URLs of the EventSources the last step constructed
    saved,             \* resume state at the last disconnect, until the next attach
    observe,           \* which observers are kept: "step", "log", "trace", ...
    watched,           \* the message id whose onMessage calls are counted
    calls,             \* onMessage calls for watched: on this channel, and since seenIds last shrank
    lastDelivered,     \* sequence of the latest onMessage call on this channel
    connTrace,         \* the data-stream events received on the latest connection
    fitTrace,          \* the same, continuing lastSeq and seenIds as they were at attach
    stopped,           \* the application's last call was disconnect()
    rejected,          \* who received the rejection of the connect() the last step settled
    enabled,           \* useStream: options.enabled
    isConnectingRef,   \* useStream: isConnectingRef.current
    effectDue,         \* useStream: the effect on options.enabled has yet to run
    awaited,           \* useStream: the client replaced an earlier one and has not opened yet
    orphans            \* useStream: connect() calls of replaced clients still negotiating

vars == <<startStreamHeaders, request, eventSource, connecting, lastEventId, lastSeq, seenIds, tokenExpiresAt,
          currentChannelId, hasConnected, conns, inflight, fired, lastOp, lastIn,
          onConnects, lastAnswer, drain, opened, saved, observe, watched, calls, lastDelivered,
          connTrace, fitTrace, stopped, rejected, enabled, isConnectingRef, effectDue,
          awaited, orphans>>

hook == <<enabled, isConnectingRef, effectDue, awaited, orphans>>

observers == <<observe, watched, calls, lastDelivered, connTrace, fitTrace>>


client == <<eventSource, connecting, lastEventId, lastSeq, seenIds, tokenExpiresAt,
            currentChannelId, hasConnected>>

(***************************************************************************)
(* Callback records.                                                        *)
(***************************************************************************)
Cb(name) == [cb |-> name, arg |-> Undefined]
OnMessage(payload) == [cb |-> "onMessage", arg |-> payload]

\* an error report that loses what went wrong
ErrGeneric(msg) == [cb |-> "onError", arg |-> "Error"]

Err(msg) == [cb |-> "onError", arg |-> msg]

\* startStream as earlier revisions wrote it: the body is returned unchecked
StartStreamUnchecked(r) == IF ~r.ok THEN "failed" ELSE "ok"

\* a startStream that does not look at response.ok
StartStreamIgnoringStatus(r) ==
    IF ~r.conduit \/ r.token = NoToken \/ r.channel_id = Undefined \/ r.url = Undefined
    THEN "invalid" ELSE "ok"

(***************************************************************************)
(* startStream: the outcome of the negotiation for response r.              *)
(***************************************************************************)
StartStream(r) ==
    IF ~r.ok THEN "failed"
    ELSE IF ~r.conduit \/ r.token = NoToken \/ r.channel_id = Undefined \/ r.url = Undefined
         THEN "invalid"
         ELSE "ok"

\* a getTokenExpiry that takes an unreadable credential for one long expired
GetTokenExpiryOrEpoch(token) ==
    IF token.parts < 2 \/ token.body # "claims" THEN 1
    ELSE IF token.hasExp /\ token.exp # 0 THEN token.exp * 1000 ELSE NoExpiry

(***************************************************************************)
(* getTokenExpiry: the exp claim in milliseconds, or undefined (NoExpiry).  *)
(***************************************************************************)
GetTokenExpiry(token) ==
    IF token.parts < 2 THEN NoExpiry
    ELSE IF token.body # "claims" THEN NoExpiry
    ELSE IF token.hasExp /\ token.exp # 0 THEN token.exp * 1000 ELSE NoExpiry

\* this.tokenExpiresAt && Date.now() >= this.tokenExpiresAt
TokenExpired(expiresAt, now) == expiresAt # NoExpiry /\ now >= expiresAt

\* buildUrl as earlier revisions wrote it: if (this.lastEventId)
BuildUrlTruthy(url, token, channelId, leid) ==
    [endpoint |-> url, token |-> token, channel_id |-> channelId,
     last_event_id |-> IF leid \notin {Undefined, ""} THEN leid ELSE Undefined]

\* buildUrl as earlier revisions wrote it: the client's own events URL
BuildUrlFromBase(url, token, channelId, leid) ==
    [endpoint |-> "https://h/events", token |-> token, channel_id |-> channelId,
     last_event_id |-> IF leid # Undefined THEN leid ELSE Undefined]

(***************************************************************************)
(* buildUrl: the endpoint, with the query it came with, and the parameters  *)
(* set on it: token, channel_id and, when a resume token is held,           *)
(* last_event_id.                                                           *)
(***************************************************************************)
BuildUrl(url, token, channelId, leid) ==
    [endpoint |-> url, token |-> token, channel_id |-> channelId,
     last_event_id |-> IF leid # Undefined THEN leid ELSE Undefined]

\* a handler that keeps the resume token when the event carries no identifier
LastEventIdIfAny(ev) == IF ev.lastEventId = "" THEN lastEventId ELSE ev.lastEventId

\* handleStream, handleControl: this.lastEventId = event.lastEventId
LastEventIdOf(ev) == ev.lastEventId

\* a handler that reconnects on every control event
AlwaysDraining(type) == TRUE

\* handleControl: control_type === 'server_draining'
IsDraining(type) == type = "server_draining"

\* a guard that looks at the connecting flag only
GuardConnectingOnly(cing, es) == cing

\* a guard that looks at the held connection only
GuardHeldOnly(cing, es) == es # Null

\* connect's early return
ConnectGuard(cing, es) == cing \/ es # Null

\* a comparison that never sees a new channel
ChannelNeverChanged(channelId, current) == FALSE

\* connect: channel_id !== this.currentChannelId
ChannelChanged(channelId, current) == channelId # current

\* attach: new EventSource(url) with the four handlers installed
NewEventSource ==
    [readyState |-> CONNECTING, onopen |-> TRUE, onerror |-> TRUE,
     stream |-> TRUE, control |-> TRUE, closed |-> 0]

\* a disconnect that leaves the EventSource as it is
NotReleased(es) == es

\* a disconnect that leaves the two topic listeners in place
ReleasedKeepsListeners(es) ==
    [es EXCEPT !.onopen = FALSE, !.onerror = FALSE, !.readyState = CLOSED, !.closed = @ + 1]

\* a disconnect that detaches the handlers and forgets to close
ReleasedNotClosed(es) ==
    [es EXCEPT !.onopen = FALSE, !.onerror = FALSE, !.stream = FALSE, !.control = FALSE]

\* a disconnect that only calls close()
ReleasedStillListening(es) == [es EXCEPT !.readyState = CLOSED, !.closed = @ + 1]

\* disconnect: handlers detached, close() called
Released(es) ==
    [es EXCEPT !.onopen = FALSE, !.onerror = FALSE, !.stream = FALSE,
               !.control = FALSE, !.readyState = CLOSED, !.closed = @ + 1]

\* the kinds of event an EventSource dispatches, and whether es has a handler for one
Topics == {"open", "error", "stream", "control"}
Installed(es, topic) ==
    CASE topic = "open" -> es.onopen
      [] topic = "error" -> es.onerror
      [] topic = "stream" -> es.stream
      [] topic = "control" -> es.control

\* a lookup that never finds the id
NeverDuplicate(ids, id) == FALSE

\* handleStream: this.seenIds.has(message_id)
IsDuplicate(ids, id) == id \in ids

\* a handler that never records the id
SeenAfterDropping(ids, id) == ids

\* a set that stops recording once it is full
SeenAfterWhenRoom(ids, id) ==
    IF Cardinality(ids) >= MAX_SEEN_TRACKING THEN ids ELSE ids \cup {id}

\* handleStream: clear on overflow, then add
SeenAfter(ids, id) ==
    (IF Cardinality(ids) > MAX_SEEN_TRACKING THEN {} ELSE ids) \cup {id}

\* a comparison that finds no event stale
NeverStale(seq, last) == FALSE

\* a comparison that lets an equal sequence through
IsStaleBelow(seq, last) == last # NoSeq /\ seq < last

\* handleStream: this.lastSeq !== undefined && sequence <= this.lastSeq
IsStale(seq, last) == last # NoSeq /\ seq <= last

\* a dispatch that forwards the payload of every phase
DispatchAnyPhase(env) ==
    IF env.payload # Undefined THEN <<OnMessage(env.payload)>> ELSE <<>>

\* a dispatch that forwards a PHASE_DELTA event whatever it carries
DispatchEveryDelta(env) ==
    (IF env.phase = "PHASE_DELTA" THEN <<OnMessage(env.payload)>> ELSE <<>>)
    \o (IF env.phase = "PHASE_ERROR" THEN <<Err("Stream error")>> ELSE <<>>)

\* a dispatch that does not report PHASE_ERROR
DispatchWithoutError(env) ==
    IF env.phase = "PHASE_DELTA" /\ env.payload # Undefined
    THEN <<OnMessage(env.payload)>> ELSE <<>>

\* handleStream: the callbacks of an accepted envelope
Dispatch(env) ==
    (IF env.phase = "PHASE_DELTA" /\ env.payload # Undefined
     THEN <<OnMessage(env.payload)>> ELSE <<>>)
    \o (IF env.phase = "PHASE_ERROR" THEN <<Err("Stream error")>> ELSE <<>>)

\* an open handler that always reports a first connection
AlwaysOnConnect(had) == Cb("onConnect")

\* the open handler: onConnect on the first open signal, onReconnect afterwards
OpenCallback(had) == IF had THEN Cb("onReconnect") ELSE Cb("onConnect")

(***************************************************************************)
(* Observers.  None of them is read by the client's operations.  Which   *)
(* of them are kept is fixed by observe at the start: under "step" fired,  *)
(* lastOp and lastIn; under "stop" fired and stopped; under "log" the call *)
(* counts; under "trace" the onMessage calls in fired, the traces and what *)
(* is due; under "order" fired, lastDelivered and part of lastIn; under    *)
(* "live" fired, drain and rejected; under "request" request; under "hook"  *)
(* none.  opened and saved are always kept; lastAnswer under "step".       *)
(***************************************************************************)
Op(label) == IF observe = "step" THEN label ELSE "-"
Sent(req) == IF observe = "request" THEN req ELSE NoRequest
Shown(cbs) ==
    CASE observe \in {"log", "request", "hook"} -> <<>>
      [] observe = "trace" -> SelectSeq(cbs, LAMBDA x : x.cb = "onMessage")
      [] OTHER -> cbs

Payloads_of(cbs) ==
    LET F[i \in 0..Len(cbs)] ==
            IF i = 0 THEN <<>>
            ELSE IF cbs[i].cb = "onMessage" THEN Append(F[i-1], cbs[i].arg) ELSE F[i-1]
    IN  F[Len(cbs)]

NoCalls == [total |-> 0, sinceClear |-> 0]

\* the counts after a handleStream step that fired cbs for an event carrying id
Counted(n, lost, id, cbs) ==
    LET k == IF id = watched THEN Len(Payloads_of(cbs)) ELSE 0
    IN  [total |-> n.total + k, sinceClear |-> (IF lost THEN 0 ELSE n.sinceClear) + k]

(***************************************************************************)
(* A trace follows the data-stream events received on a connection as long  *)
(* as their sequence values are strictly increasing and their message_ids   *)
(* pairwise distinct: last is the last sequence received, ids the ids       *)
(* received.  Once the order is broken nothing more is recorded.            *)
(***************************************************************************)
Fresh == [ok |-> TRUE, last |-> NoSeq, ids |-> {}]
Broken == [ok |-> FALSE, last |-> NoSeq, ids |-> {}]
Continuing(seq, ids) == [ok |-> TRUE, last |-> seq, ids |-> ids]

Track(t, env) ==
    IF ~t.ok THEN t
    ELSE IF (t.last # NoSeq /\ env.sequence <= t.last) \/ env.message_id \in t.ids
    THEN Broken
    ELSE [ok |-> TRUE, last |-> env.sequence, ids |-> t.ids \cup {env.message_id}]

\* what the envelope obliges onMessage to receive
Wanted(env) ==
    IF env.phase = "PHASE_DELTA" /\ env.payload # Undefined THEN <<env.payload>> ELSE <<>>

\* what a data-stream envelope is, against the client's state as it arrives
NoInput ==
    [phase |-> "-", id |-> "-", known |-> FALSE, stale |-> FALSE, loaded |-> FALSE,
     due |-> <<>>, eventId |-> "-"]
Input(env) ==
    LET full == [phase |-> env.phase,
                 id |-> env.message_id,
                 known |-> env.message_id \in seenIds,
                 stale |-> lastSeq # NoSeq /\ env.sequence <= lastSeq,
                 loaded |-> env.payload # Undefined,
                 due |-> Wanted(env),
                 eventId |-> "-"]
    IN  CASE observe = "step" -> full
          [] observe = "order" -> [full EXCEPT !.id = "-", !.loaded = FALSE, !.due = <<>>]
          [] observe = "trace" -> [NoInput EXCEPT !.due = full.due]
          [] OTHER -> NoInput

\* what a negotiation response is, as it arrives at the time now
NoAnswer == [status |-> "-", expired |-> FALSE, channel_id |-> "-"]
Answer(r, now) ==
    IF observe = "step"
    THEN [status |-> IF ~r.ok THEN "failed"
                     ELSE IF r.conduit /\ r.token # NoToken /\ r.channel_id # Undefined
                             /\ r.url # Undefined
                     THEN "complete" ELSE "incomplete",
          expired |-> r.token.hasExp /\ r.token.exp * 1000 <= now,
          channel_id |-> r.channel_id]
    ELSE NoAnswer

\* who receives the rejection of a connect() whose negotiation ended as outcome:
\* the caller that awaits it, or nobody when reconnect() started it
Rejection(outcome, pending) ==
    IF observe = "live" /\ outcome # "ok"
    THEN (IF pending = "pending" THEN "nobody" ELSE "caller")
    ELSE "-"

\* an event whose data is not JSON
Unparsed == IF observe = "step" THEN [NoInput EXCEPT !.phase = "unparsable"] ELSE NoInput

\* the event identifier the transport assigned to the event
Received(in, ev) == IF observe = "step" THEN [in EXCEPT !.eventId = ev.lastEventId] ELSE in

NoSnapshot == [set |-> FALSE, lastEventId |-> Undefined, lastSeq |-> NoSeq, seenIds |-> {}]
Snapshot(leid, seq, ids) == [set |-> TRUE, lastEventId |-> leid, lastSeq |-> seq, seenIds |-> ids]

Start ==
    /\ eventSource = Null
    /\ connecting = FALSE
    /\ lastEventId = Undefined
    /\ lastSeq = NoSeq
    /\ seenIds = {}
    /\ tokenExpiresAt = NoExpiry
    /\ currentChannelId = Undefined
    /\ hasConnected = FALSE
    /\ conns = <<>>
    /\ inflight = 0
    /\ fired = <<>>
    /\ lastOp = Op("init")
    /\ opened = <<>>
    /\ lastIn = NoInput
    /\ onConnects = 0
    /\ lastAnswer = NoAnswer
    /\ drain = "no"
    /\ saved = NoSnapshot
    /\ calls = NoCalls
    /\ lastDelivered = NoSeq
    /\ connTrace = Fresh
    /\ fitTrace = Fresh
    /\ stopped = FALSE
    /\ request = NoRequest
    /\ rejected = "-"
    /\ isConnectingRef = FALSE
    /\ awaited = FALSE
    /\ orphans = 0

\* the client is used directly, without the useStream hook
NoHook == enabled = FALSE /\ effectDue = FALSE

Init == observe = "step" /\ watched = "m1" /\ startStreamHeaders = NoHeaders /\ NoHook /\ Start
InitLog == observe = "log" /\ watched \in MsgIds /\ startStreamHeaders = NoHeaders /\ NoHook /\ Start
InitTrace == observe = "trace" /\ watched = "m1" /\ startStreamHeaders = NoHeaders /\ NoHook /\ Start
InitOrder == observe = "order" /\ watched = "m1" /\ startStreamHeaders = NoHeaders /\ NoHook /\ Start
InitStop == observe = "stop" /\ watched = "m1" /\ startStreamHeaders = NoHeaders /\ NoHook /\ Start
InitRequest ==
    observe = "request" /\ watched = "m1" /\ startStreamHeaders \in CallerHeaders /\ NoHook
    /\ Start
\* useStream is mounted: the client exists and the effect on enabled is due
InitHook ==
    observe = "hook" /\ watched = "m1" /\ startStreamHeaders = NoHeaders
    /\ enabled \in BOOLEAN /\ effectDue = TRUE /\ Start
InitLive == observe = "live" /\ watched = "m1" /\ startStreamHeaders = NoHeaders /\ NoHook /\ Start

\* a getter that also reports a held connection as connecting
IsConnectingOrHeld == connecting \/ eventSource # Null

\* get isConnecting()
IsConnecting == connecting

\* a getter that reports any held connection as connected
IsConnectedWhenHeld == eventSource # Null

\* isConnected(): this.eventSource?.readyState === EventSource.OPEN
IsConnected == eventSource # Null /\ conns[eventSource].readyState = OPEN

\* room for one more EventSource within the model's bound
Room == Len(conns) + inflight < MaxConns

(***************************************************************************)
(* connect(), up to the await of the negotiation request.                   *)
(***************************************************************************)
Connect ==
    /\ UNCHANGED startStreamHeaders
    /\ rejected' = "-"
    /\ stopped' = FALSE
    /\ fired' = Shown(<<>>)
    /\ opened' = <<>>
    /\ lastIn' = NoInput
    /\ lastAnswer' = NoAnswer
    /\ UNCHANGED <<eventSource, lastEventId, lastSeq, seenIds, tokenExpiresAt,
                   currentChannelId, hasConnected, conns, observers, saved, onConnects,
                   drain>>
    /\ IF ConnectGuard(connecting, eventSource)
       THEN /\ lastOp' = Op("connect_noop")
            /\ request' = NoRequest
            /\ UNCHANGED <<connecting, inflight>>
       ELSE /\ Room
            /\ connecting' = TRUE
            /\ inflight' = inflight + 1
            /\ request' = Sent(StartStreamRequest(startStreamHeaders))
            /\ lastOp' = Op("connect_start")

\* a connect() that adopts the negotiated channel before it looks at the expiry
NegotiatedChannelFirst(r, now) ==
    /\ UNCHANGED startStreamHeaders
    /\ rejected' = Rejection(StartStream(r), drain)
    /\ isConnectingRef' = FALSE
    /\ UNCHANGED <<enabled, effectDue, awaited, orphans>>
    /\ request' = NoRequest
    /\ inflight > 0
    /\ inflight' = inflight - 1
    /\ connecting' = FALSE
    /\ UNCHANGED <<hasConnected, stopped, onConnects>>
    /\ drain' = (IF drain = "pending" THEN "answered" ELSE "no")
    /\ IF StartStream(r) # "ok"
       THEN /\ lastOp' = Op(IF StartStream(r) = "failed" THEN "rejected_failed"
                             ELSE "rejected_invalid")
            /\ fired' = Shown(<<>>)
            /\ opened' = <<>>
            /\ lastIn' = NoInput
            /\ lastAnswer' = Answer(r, now)
            /\ UNCHANGED <<eventSource, lastEventId, lastSeq, seenIds, tokenExpiresAt,
                           currentChannelId, conns, observers, saved>>
       ELSE /\ tokenExpiresAt' = GetTokenExpiry(r.token)
            /\ IF TokenExpired(GetTokenExpiry(r.token), now)
               THEN /\ fired' = Shown(<<Err("Token expired at reconnect")>>)
                    /\ lastOp' = Op("expired")
                    /\ opened' = <<>>
                    /\ lastIn' = NoInput
                    /\ lastAnswer' = Answer(r, now)
                    /\ currentChannelId' = r.channel_id
                    /\ lastSeq' = (IF ChannelChanged(r.channel_id, currentChannelId)
                                   THEN NoSeq ELSE lastSeq)
                    /\ seenIds' = (IF ChannelChanged(r.channel_id, currentChannelId)
                                   THEN {} ELSE seenIds)
                    /\ lastEventId' = (IF ChannelChanged(r.channel_id, currentChannelId)
                                       THEN Undefined ELSE lastEventId)
                    /\ UNCHANGED <<eventSource, conns, observers, saved>>
               ELSE LET changed == ChannelChanged(r.channel_id, currentChannelId)
                        leid == IF changed THEN Undefined ELSE lastEventId
                    IN  /\ currentChannelId' = r.channel_id
                        /\ lastSeq' = (IF changed THEN NoSeq ELSE lastSeq)
                        /\ seenIds' = (IF changed THEN {} ELSE seenIds)
                        /\ lastEventId' = leid
                        /\ conns' = Append(conns, NewEventSource)
                        /\ opened' = <<BuildUrl(r.url, r.token, r.channel_id, leid)>>
                        /\ lastIn' = NoInput
                        /\ lastAnswer' = Answer(r, now)
                        /\ eventSource' = Len(conns) + 1
                        /\ fired' = Shown(<<>>)
                        /\ lastOp' = Op(IF changed THEN "attached_new" ELSE "attached_same")
                        /\ calls' = (IF currentChannelId' # currentChannelId
                                     THEN NoCalls ELSE calls)
                        /\ lastDelivered' = (IF currentChannelId' # currentChannelId
                                             THEN NoSeq ELSE lastDelivered)
                        /\ connTrace' = Fresh
                        /\ fitTrace' = (IF observe = "trace"
                                        THEN Continuing(lastSeq', seenIds') ELSE Fresh)
                        /\ UNCHANGED <<observe, watched>>
                        /\ saved' = NoSnapshot

(***************************************************************************)
(* connect(), from the answer of the negotiation request to its finally.    *)
(***************************************************************************)
Negotiated(r, now) ==
    /\ UNCHANGED startStreamHeaders
    /\ rejected' = Rejection(StartStream(r), drain)
    /\ isConnectingRef' = FALSE
    /\ UNCHANGED <<enabled, effectDue, awaited, orphans>>
    /\ request' = NoRequest
    /\ inflight > 0
    /\ inflight' = inflight - 1
    /\ connecting' = FALSE
    /\ UNCHANGED <<hasConnected, stopped, onConnects>>
    /\ drain' = (IF drain = "pending" THEN "answered" ELSE "no")
    /\ IF StartStream(r) # "ok"
       THEN /\ lastOp' = Op(IF StartStream(r) = "failed" THEN "rejected_failed"
                             ELSE "rejected_invalid")
            /\ fired' = Shown(<<>>)
            /\ opened' = <<>>
            /\ lastIn' = NoInput
            /\ lastAnswer' = Answer(r, now)
            /\ UNCHANGED <<eventSource, lastEventId, lastSeq, seenIds, tokenExpiresAt,
                           currentChannelId, conns, observers, saved>>
       ELSE /\ tokenExpiresAt' = GetTokenExpiry(r.token)
            /\ IF TokenExpired(GetTokenExpiry(r.token), now)
               THEN /\ fired' = Shown(<<Err("Token expired at reconnect")>>)
                    /\ lastOp' = Op("expired")
                    /\ opened' = <<>>
                    /\ lastIn' = NoInput
                    /\ lastAnswer' = Answer(r, now)
                    /\ UNCHANGED <<eventSource, lastEventId, lastSeq, seenIds,
                                   currentChannelId, conns, observers, saved>>
               ELSE LET changed == ChannelChanged(r.channel_id, currentChannelId)
                        leid == IF changed THEN Undefined ELSE lastEventId
                    IN  /\ currentChannelId' = r.channel_id
                        /\ lastSeq' = (IF changed THEN NoSeq ELSE lastSeq)
                        /\ seenIds' = (IF changed THEN {} ELSE seenIds)
                        /\ lastEventId' = leid
                        /\ conns' = Append(conns, NewEventSource)
                        /\ opened' = <<BuildUrl(r.url, r.token, r.channel_id, leid)>>
                        /\ lastIn' = NoInput
                        /\ lastAnswer' = Answer(r, now)
                        /\ eventSource' = Len(conns) + 1
                        /\ fired' = Shown(<<>>)
                        /\ lastOp' = Op(IF changed THEN "attached_new" ELSE "attached_same")
                        /\ calls' = (IF currentChannelId' # currentChannelId
                                     THEN NoCalls ELSE calls)
                        /\ lastDelivered' = (IF currentChannelId' # currentChannelId
                                             THEN NoSeq ELSE lastDelivered)
                        /\ connTrace' = Fresh
                        /\ fitTrace' = (IF observe = "trace"
                                        THEN Continuing(lastSeq', seenIds') ELSE Fresh)
                        /\ UNCHANGED <<observe, watched>>
                        /\ saved' = NoSnapshot

\* a disconnect() that reports a close also when nothing is held
DisconnectAlwaysCloses ==
    /\ UNCHANGED startStreamHeaders
    /\ rejected' = "-"
    /\ request' = NoRequest
    /\ stopped' = (observe = "stop")
    /\ opened' = <<>>
    /\ lastIn' = NoInput
    /\ lastAnswer' = NoAnswer
    /\ UNCHANGED <<connecting, lastEventId, lastSeq, seenIds, tokenExpiresAt,
                   currentChannelId, hasConnected, inflight, observers, onConnects, drain>>
    /\ fired' = Shown(<<Cb("onClose")>>)
    /\ lastOp' = Op("disconnect")
    /\ IF eventSource # Null
       THEN /\ conns' = [conns EXCEPT ![eventSource] = Released(@)]
            /\ eventSource' = Null
            /\ saved' = Snapshot(lastEventId, lastSeq, seenIds)
       ELSE UNCHANGED <<eventSource, conns, saved>>

\* a disconnect() that also drops the resume token
DisconnectForgetting ==
    /\ UNCHANGED startStreamHeaders
    /\ rejected' = "-"
    /\ request' = NoRequest
    /\ stopped' = (observe = "stop")
    /\ opened' = <<>>
    /\ lastIn' = NoInput
    /\ lastAnswer' = NoAnswer
    /\ UNCHANGED <<connecting, lastSeq, seenIds, tokenExpiresAt,
                   currentChannelId, hasConnected, inflight, observers, onConnects, drain>>
    /\ IF eventSource # Null
       THEN /\ conns' = [conns EXCEPT ![eventSource] = Released(@)]
            /\ eventSource' = Null
            /\ lastEventId' = Undefined
            /\ fired' = Shown(<<Cb("onClose")>>)
            /\ lastOp' = Op("disconnect")
            /\ saved' = Snapshot(lastEventId, lastSeq, seenIds)
       ELSE /\ fired' = Shown(<<>>)
            /\ lastOp' = Op("disconnect_noop")
            /\ UNCHANGED <<eventSource, lastEventId, conns, saved>>

(***************************************************************************)
(* disconnect().                                                            *)
(***************************************************************************)
Disconnect ==
    /\ UNCHANGED startStreamHeaders
    /\ rejected' = "-"
    /\ request' = NoRequest
    /\ stopped' = (observe = "stop")
    /\ opened' = <<>>
    /\ lastIn' = NoInput
    /\ lastAnswer' = NoAnswer
    /\ UNCHANGED <<connecting, lastEventId, lastSeq, seenIds, tokenExpiresAt,
                   currentChannelId, hasConnected, inflight, observers, onConnects, drain>>
    /\ IF eventSource # Null
       THEN /\ conns' = [conns EXCEPT ![eventSource] = Released(@)]
            /\ eventSource' = Null
            /\ fired' = Shown(<<Cb("onClose")>>)
            /\ lastOp' = Op("disconnect")
            /\ saved' = Snapshot(lastEventId, lastSeq, seenIds)
       ELSE /\ fired' = Shown(<<>>)
            /\ lastOp' = Op("disconnect_noop")
            /\ UNCHANGED <<eventSource, conns, saved>>

(***************************************************************************)
(* The transport opens connection c and fires its onopen handler.           *)
(***************************************************************************)
Open(c) ==
    /\ UNCHANGED startStreamHeaders
    /\ rejected' = "-"
    /\ awaited' = (awaited /\ ~conns[c].onopen)
    /\ UNCHANGED <<enabled, isConnectingRef, effectDue, orphans>>
    /\ request' = NoRequest
    /\ conns[c].readyState = CONNECTING
    /\ conns' = [conns EXCEPT ![c].readyState = OPEN]
    /\ IF conns[c].onopen
       THEN /\ fired' = Shown(<<OpenCallback(hasConnected)>>)
            /\ hasConnected' = TRUE
            /\ onConnects' = (IF OpenCallback(hasConnected).cb = "onConnect" /\ onConnects < 2
                              THEN onConnects + 1 ELSE onConnects)
       ELSE /\ fired' = Shown(<<>>)
            /\ UNCHANGED <<hasConnected, onConnects>>
    /\ lastOp' = Op("open")
    /\ opened' = <<>>
    /\ lastIn' = NoInput
    /\ lastAnswer' = NoAnswer
    /\ UNCHANGED <<eventSource, connecting, lastEventId, lastSeq, seenIds, tokenExpiresAt,
                   currentChannelId, inflight, observers, saved, stopped, drain>>

\* an error handler that gives the connection up
ErrorSignalDisconnecting(c, fatal) ==
    /\ UNCHANGED startStreamHeaders
    /\ rejected' = "-"
    /\ UNCHANGED hook
    /\ request' = NoRequest
    /\ conns[c].readyState \in {CONNECTING, OPEN}
    /\ IF conns[c].onerror /\ eventSource # Null
       THEN /\ conns' = [conns EXCEPT ![c] = Released(@)]
            /\ eventSource' = Null
            /\ fired' = Shown(<<Err("SSE connection error"), Cb("onClose")>>)
       ELSE /\ conns' = [conns EXCEPT ![c].readyState = IF fatal THEN CLOSED ELSE CONNECTING]
            /\ fired' = Shown(<<>>)
            /\ UNCHANGED eventSource
    /\ lastOp' = Op("error")
    /\ opened' = <<>>
    /\ lastIn' = NoInput
    /\ lastAnswer' = NoAnswer
    /\ UNCHANGED <<connecting, lastEventId, lastSeq, seenIds, tokenExpiresAt, currentChannelId,
                   hasConnected, inflight, observers, saved, stopped, onConnects, drain>>

(***************************************************************************)
(* The transport reports an error on connection c: it retries (CONNECTING)  *)
(* or gives up (CLOSED), and fires the onerror handler.                     *)
(***************************************************************************)
ErrorSignal(c, fatal) ==
    /\ UNCHANGED startStreamHeaders
    /\ rejected' = "-"
    /\ UNCHANGED hook
    /\ request' = NoRequest
    /\ conns[c].readyState \in {CONNECTING, OPEN}
    /\ conns' = [conns EXCEPT ![c].readyState = IF fatal THEN CLOSED ELSE CONNECTING]
    /\ fired' = Shown(IF conns[c].onerror /\ eventSource # Null
                      THEN <<Err("SSE connection error")>> ELSE <<>>)
    /\ lastOp' = Op("error")
    /\ opened' = <<>>
    /\ lastIn' = NoInput
    /\ lastAnswer' = NoAnswer
    /\ UNCHANGED <<client, inflight, observers, saved, stopped, onConnects, drain>>

(***************************************************************************)
(* handleStream for an event on connection c.                               *)
(***************************************************************************)
HandleStream(c, ev) ==
    /\ UNCHANGED startStreamHeaders
    /\ rejected' = "-"
    /\ UNCHANGED hook
    /\ request' = NoRequest
    /\ conns[c].stream
    /\ conns[c].readyState = OPEN \/ conns[c].closed > 0
    /\ lastEventId' = LastEventIdOf(ev)
    /\ opened' = <<>>
    /\ lastIn' = Received(IF ev.data = "envelope" THEN Input(ev.env)
                           ELSE IF ev.data = "garbage" THEN Unparsed ELSE NoInput, ev)
    /\ lastAnswer' = NoAnswer
    /\ UNCHANGED <<connecting, tokenExpiresAt, currentChannelId, hasConnected, inflight,
                   stopped, onConnects, drain>>
    /\ IF ev.data = "garbage"
       THEN /\ fired' = Shown(<<Err("Failed to parse")>>)
            /\ lastOp' = Op("stream_parse")
            /\ UNCHANGED <<eventSource, lastSeq, seenIds, conns>>
       ELSE IF ev.data = "null"
       THEN /\ fired' = Shown(<<Cb("throw")>>)
            /\ lastOp' = Op("stream_throw")
            /\ UNCHANGED <<eventSource, lastSeq, seenIds, conns>>
       ELSE IF ev.env.phase = "PHASE_END"
       THEN /\ IF eventSource # Null
               THEN /\ conns' = [conns EXCEPT ![eventSource] = Released(@)]
                    /\ eventSource' = Null
                    /\ fired' = Shown(<<Cb("onClose")>>)
               ELSE /\ fired' = Shown(<<>>)
                    /\ UNCHANGED <<eventSource, conns>>
            /\ lastOp' = Op("stream_end")
            /\ UNCHANGED <<lastSeq, seenIds>>
       ELSE IF IsDuplicate(seenIds, ev.env.message_id)
       THEN /\ fired' = Shown(<<>>)
            /\ lastOp' = Op("stream_dup")
            /\ UNCHANGED <<eventSource, lastSeq, seenIds, conns>>
       ELSE /\ seenIds' = SeenAfter(seenIds, ev.env.message_id)
            /\ UNCHANGED <<eventSource, conns>>
            /\ IF IsStale(ev.env.sequence, lastSeq)
               THEN /\ fired' = Shown(<<>>)
                    /\ lastOp' = Op("stream_stale")
                    /\ UNCHANGED lastSeq
               ELSE /\ lastSeq' = ev.env.sequence
                    /\ fired' = Shown(Dispatch(ev.env))
                    /\ lastOp' = Op("stream_ok")
    /\ UNCHANGED <<observe, watched>>
    /\ calls' = (IF observe = "log" /\ ev.data = "envelope"
                 THEN Counted(calls, ~(seenIds \subseteq seenIds'), ev.env.message_id,
                              IF lastSeq' # lastSeq THEN Dispatch(ev.env) ELSE <<>>)
                 ELSE calls)
    /\ lastDelivered' = (IF observe = "order" /\ Payloads_of(fired') # <<>>
                         THEN ev.env.sequence ELSE lastDelivered)
    /\ connTrace' = (IF observe = "trace" /\ ev.data = "envelope"
                     THEN Track(connTrace, ev.env) ELSE connTrace)
    /\ fitTrace' = (IF observe = "trace" /\ ev.data = "envelope"
                    THEN Track(fitTrace, ev.env) ELSE fitTrace)
    /\ saved' = (IF eventSource # Null /\ eventSource' = Null
                 THEN Snapshot(lastEventId', lastSeq', seenIds') ELSE saved)

(***************************************************************************)
(* handleControl for an event on connection c.  server_draining runs        *)
(* disconnect() and then reconnect(), which runs connect() up to its await. *)
(***************************************************************************)
HandleControl(c, ev) ==
    /\ UNCHANGED startStreamHeaders
    /\ rejected' = "-"
    /\ UNCHANGED hook
    /\ conns[c].control
    /\ conns[c].readyState = OPEN \/ conns[c].closed > 0
    /\ lastEventId' = LastEventIdOf(ev)
    /\ opened' = <<>>
    /\ lastIn' = Received(IF ev.data = "garbage" THEN Unparsed ELSE NoInput, ev)
    /\ lastAnswer' = NoAnswer
    /\ UNCHANGED <<lastSeq, seenIds, tokenExpiresAt, currentChannelId, hasConnected,
                   observers, stopped, onConnects>>
    /\ IF ev.data = "garbage"
       THEN /\ fired' = Shown(<<Err("Failed to parse")>>)
            /\ lastOp' = Op("control_parse")
            /\ request' = NoRequest
            /\ UNCHANGED <<eventSource, connecting, conns, inflight, drain>>
       ELSE IF ev.data = "null"
       THEN /\ fired' = Shown(<<Cb("throw")>>)
            /\ lastOp' = Op("control_throw")
            /\ request' = NoRequest
            /\ UNCHANGED <<eventSource, connecting, conns, inflight, drain>>
       ELSE IF IsDraining(ev.control_type)
       THEN /\ IF eventSource # Null
               THEN /\ conns' = [conns EXCEPT ![eventSource] = Released(@)]
                    /\ fired' = Shown(<<Cb("onClose")>>)
               ELSE /\ fired' = Shown(<<>>)
                    /\ UNCHANGED conns
            /\ eventSource' = Null
            /\ IF ConnectGuard(connecting, Null)
               THEN /\ request' = NoRequest
                    /\ UNCHANGED <<connecting, inflight>>
               ELSE /\ Room
                    /\ connecting' = TRUE
                    /\ inflight' = inflight + 1
                    /\ request' = Sent(StartStreamRequest(startStreamHeaders))
            /\ lastOp' = Op("control_drain")
            /\ drain' = (IF observe = "live" THEN "pending" ELSE drain)
       ELSE /\ fired' = Shown(<<>>)
            /\ lastOp' = Op("control_other")
            /\ request' = NoRequest
            /\ UNCHANGED <<eventSource, connecting, conns, inflight, drain>>
    /\ saved' = (IF eventSource # Null /\ eventSource' = Null
                 THEN Snapshot(lastEventId', lastSeq', seenIds') ELSE saved)

(***************************************************************************)
(* An event that was under way when disconnect() released connection c is   *)
(* dispatched on it and finds no handler for its topic.  (With a handler    *)
(* still installed it is handled by HandleStream or HandleControl.)         *)
(***************************************************************************)
Late(c, topic) ==
    /\ conns[c].closed > 0
    /\ ~Installed(conns[c], topic)
    /\ lastOp' = Op("late")
    /\ fired' = Shown(<<>>)
    /\ opened' = <<>>
    /\ lastIn' = NoInput
    /\ lastAnswer' = NoAnswer
    /\ request' = NoRequest
    /\ rejected' = "-"
    /\ UNCHANGED <<startStreamHeaders, client, conns, inflight, observers, saved, stopped,
                   onConnects, drain, hook>>

\* the application calls connect() or disconnect() on the client
AppConnect == Connect /\ UNCHANGED hook
AppDisconnect == Disconnect /\ UNCHANGED hook

(***************************************************************************)
(* useStream.  The props change the enabled flag; the effect on enabled     *)
(* then runs: connect() unless the hook believes a connect is under way or  *)
(* the client is connected, disconnect() when the flag is off.  A connect() *)
(* that returns at its guard settles at once and clears isConnectingRef.    *)
(***************************************************************************)
SetEnabled(b) ==
    /\ b # enabled
    /\ enabled' = b
    /\ effectDue' = TRUE
    /\ awaited' = (awaited /\ b)
    /\ UNCHANGED <<isConnectingRef, orphans>>
    /\ UNCHANGED <<startStreamHeaders, request, client, conns, inflight, fired, lastOp, lastIn,
                   onConnects, lastAnswer, drain, opened, saved, observers, stopped, rejected>>

EnabledEffect ==
    /\ effectDue
    /\ effectDue' = FALSE
    /\ UNCHANGED <<enabled, awaited, orphans>>
    /\ IF enabled
       THEN IF ~isConnectingRef /\ ~IsConnected
            THEN /\ Connect
                 /\ isConnectingRef' = ~ConnectGuard(connecting, eventSource)
            ELSE /\ UNCHANGED isConnectingRef
                 /\ UNCHANGED <<startStreamHeaders, request, client, conns, inflight, fired,
                                lastOp, lastIn, onConnects, lastAnswer, drain, opened, saved,
                                observers, stopped, rejected>>
       ELSE /\ Disconnect
            /\ isConnectingRef' = FALSE

(***************************************************************************)
(* useStream: orgId, startStreamUrl, baseConduitUrl or startStreamData      *)
(* changes.  The effect on them disconnects the client and creates a new    *)
(* one; the effect on enabled does not run.  A connect() of the replaced    *)
(* client that is still negotiating goes on without the hook (orphans).     *)
(***************************************************************************)
ConfigChange ==
    /\ ~effectDue
    /\ Len(conns) < MaxConns
    /\ orphans' = (IF inflight > 0 THEN 1 ELSE orphans)
    /\ awaited' = enabled
    /\ UNCHANGED <<enabled, isConnectingRef, effectDue>>
    /\ conns' = (IF eventSource # Null THEN [conns EXCEPT ![eventSource] = Released(@)]
                 ELSE conns)
    /\ fired' = Shown(IF eventSource # Null THEN <<Cb("onClose")>> ELSE <<>>)
    /\ eventSource' = Null
    /\ connecting' = FALSE
    /\ lastEventId' = Undefined
    /\ lastSeq' = NoSeq
    /\ seenIds' = {}
    /\ tokenExpiresAt' = NoExpiry
    /\ currentChannelId' = Undefined
    /\ hasConnected' = FALSE
    /\ inflight' = 0
    /\ lastOp' = Op("replaced")
    /\ opened' = <<>>
    /\ lastIn' = NoInput
    /\ lastAnswer' = NoAnswer
    /\ request' = NoRequest
    /\ rejected' = "-"
    /\ saved' = NoSnapshot
    /\ UNCHANGED <<startStreamHeaders, onConnects, drain, observers, stopped>>

\* the connect() of a replaced client settles: its finally clears the hook's flag
OrphanSettles ==
    /\ orphans > 0
    /\ orphans' = 0
    /\ isConnectingRef' = FALSE
    /\ UNCHANGED <<enabled, effectDue, awaited>>
    /\ UNCHANGED <<startStreamHeaders, request, client, conns, inflight, fired, lastOp, lastIn,
                   onConnects, lastAnswer, drain, opened, saved, observers, stopped, rejected>>

Next ==
    \/ AppConnect
    \/ AppDisconnect
    \/ \E r \in Responses, now \in Nows : Negotiated(r, now)
    \/ \E c \in DOMAIN conns : Open(c)
    \/ \E c \in DOMAIN conns, fatal \in BOOLEAN : ErrorSignal(c, fatal)
    \/ \E c \in DOMAIN conns, ev \in StreamEvents : HandleStream(c, ev)
    \/ \E c \in DOMAIN conns, ev \in ControlEvents : HandleControl(c, ev)
    \/ \E c \in DOMAIN conns, topic \in Topics : Late(c, topic)

Spec == Init /\ [][Next]_vars
SpecLog == InitLog /\ [][Next]_vars
SpecTrace == InitTrace /\ [][Next]_vars
SpecOrder == InitOrder /\ [][Next]_vars
SpecStop == InitStop /\ [][Next]_vars
SpecRequest == InitRequest /\ [][Next]_vars

\* the negotiation request is answered: fetch resolves or rejects
Answered == \E r \in Responses, now \in Nows : Negotiated(r, now)
SpecLive == InitLive /\ [][Next]_vars /\ WF_vars(Answered)

(***************************************************************************)
(* The client under useStream: connect() and disconnect() are called by the *)
(* hook only.  Effects run, requests are answered and connections open.     *)
(***************************************************************************)
NextHook ==
    \/ \E b \in BOOLEAN : SetEnabled(b)
    \/ EnabledEffect
    \/ ConfigChange
    \/ OrphanSettles
    \/ \E r \in Responses, now \in Nows : Negotiated(r, now)
    \/ \E c \in DOMAIN conns : Open(c)
    \/ \E c \in DOMAIN conns, fatal \in BOOLEAN : ErrorSignal(c, fatal)
    \/ \E c \in DOMAIN conns, ev \in StreamEvents : HandleStream(c, ev)
    \/ \E c \in DOMAIN conns, ev \in ControlEvents : HandleControl(c, ev)
    \/ \E c \in DOMAIN conns, topic \in Topics : Late(c, topic)

Opens == \E c \in DOMAIN conns : Open(c)
SpecHook ==
    InitHook /\ [][NextHook]_vars
    /\ WF_vars(EnabledEffect) /\ WF_vars(Answered) /\ WF_vars(Opens) /\ WF_vars(OrphanSettles)

(***************************************************************************)
(* Properties.                                                             *)
(***************************************************************************)
NonEnd == StreamPhase \ {"PHASE_END"}

\* no onMessage and no onError among the callbacks
Quiet(cbs) == \A i \in DOMAIN cbs : cbs[i].cb \notin {"onMessage", "onError"}

\* the EventSources that have not been closed
Held == {c \in DOMAIN conns : conns[c].closed = 0}

\* the last step attached a new EventSource
Attaching == eventSource = Null /\ eventSource' # Null

\* C1 as stated: while the data-stream events received on the attached
\* connection have strictly increasing sequence values and pairwise distinct
\* message_ids, every event causes exactly the onMessage call its
\* PHASE_DELTA payload obliges (one call with that payload, or none), each
\* within the step that receives it, hence in arrival order.
C1_EveryDeltaOnce == connTrace.ok => Payloads_of(fired) = lastIn.due

\* C1 amended: the same, when in addition the sequence values exceed the
\* lastSequence the client held when the connection was attached and the
\* message_ids are not among the seenMessageIds it held then.
C1_EveryDeltaOnceFromAttach == fitTrace.ok => Payloads_of(fired) = lastIn.due

C1_Witness ==
    /\ fitTrace.ok
    /\ connTrace.ok
    /\ Cardinality(connTrace.ids) >= 2
    /\ lastIn.due # <<>>
    /\ Payloads_of(fired) = lastIn.due

C3_StaleDiscarded ==
    [][ /\ (lastIn'.stale /\ lastIn'.phase \in NonEnd => Quiet(fired'))
        /\ (Payloads_of(fired') # <<>> /\ lastDelivered # NoSeq
              => lastDelivered' > lastDelivered) ]_vars

C3_Witness ==
    /\ lastIn.stale
    /\ ~lastIn.known
    /\ lastIn.phase = "PHASE_DELTA"
    /\ fired = <<>>
    /\ lastDelivered # NoSeq

\* C4: a data-stream event other than PHASE_END whose message_id is in
\* seenMessageIds invokes no callback and leaves lastSequence and
\* seenMessageIds as they were; a PHASE_DELTA event that follows a
\* PHASE_DELTA event with the same message_id invokes no onMessage.
C4_DuplicateSilent ==
    [][ /\ (lastIn'.known /\ lastIn'.phase \in NonEnd
              => fired' = <<>> /\ lastSeq' = lastSeq /\ seenIds' = seenIds)
        /\ (lastIn.phase = "PHASE_DELTA" /\ lastIn'.phase = "PHASE_DELTA"
              /\ lastIn'.id = lastIn.id
              => Payloads_of(fired') = <<>>) ]_vars

C4_Witness ==
    /\ lastIn.known
    /\ ~lastIn.stale
    /\ lastIn.phase = "PHASE_DELTA"
    /\ lastIn.due # <<>>
    /\ fired = <<>>

\* C5: a parsed PHASE_END event releases the connection and fires onClose and
\* nothing else, also when its message_id is known or its sequence stale.
C5_EndDisconnects ==
    lastIn.phase = "PHASE_END"
        => /\ eventSource = Null
           /\ fired = <<Cb("onClose")>>
           /\ \A c \in DOMAIN conns :
                  conns[c].readyState = CLOSED /\ conns[c].closed = 1 /\ ~conns[c].stream

C5_Witness ==
    /\ lastIn.phase = "PHASE_END"
    /\ lastIn.known
    /\ lastIn.stale
    /\ fired = <<Cb("onClose")>>

\* C6: at most one negotiation request is outstanding and at most one
\* EventSource is held, and connect() during a negotiation or with a held
\* connection issues no request, creates no EventSource and changes nothing.
C6_SingleFlight ==
    [][ /\ inflight' <= 1
        /\ Cardinality(Held') <= 1
        /\ (Connect /\ (connecting \/ eventSource # Null)
              => UNCHANGED <<client, conns, inflight>> /\ fired' = <<>>) ]_vars

C6_Witness ==
    /\ lastOp = "connect_noop"
    /\ connecting
    /\ inflight = 1
    /\ Len(conns) = 1

\* C7: after disconnect() and until the next connect() call no connection is
\* attached.
C7_StoppedStaysDetached == stopped => eventSource = Null

\* C8: an attach that follows a disconnect and stays on the channel leaves
\* resumeToken, lastSequence and seenMessageIds as they were at the
\* disconnect, and its URL carries last_event_id equal to resumeToken.
C8_SameChannelResumes ==
    [][ Attaching /\ saved.set /\ currentChannelId' = currentChannelId
          => /\ lastEventId' = saved.lastEventId
             /\ lastSeq' = saved.lastSeq
             /\ seenIds' = saved.seenIds
             /\ Len(opened') = 1
             /\ opened'[1].last_event_id = saved.lastEventId ]_vars

C8_Witness ==
    /\ lastOp = "attached_same"
    /\ opened[1].last_event_id = "e1"
    /\ lastEventId = "e1"
    /\ lastSeq # NoSeq
    /\ seenIds # {}

\* C9: an attach on a channel other than currentChannel leaves resumeToken
\* and lastSequence absent and seenMessageIds empty, makes the new channel
\* currentChannel, and its URL carries no last_event_id.
C9_NewChannelResets ==
    [][ Attaching /\ currentChannelId' # currentChannelId
          => /\ lastEventId' = Undefined
             /\ lastSeq' = NoSeq
             /\ seenIds' = {}
             /\ Len(opened') = 1
             /\ opened'[1].channel_id = currentChannelId'
             /\ opened'[1].last_event_id = Undefined ]_vars

C9_Witness ==
    /\ lastOp = "attached_new"
    /\ Len(conns) = 2
    /\ hasConnected
    /\ lastSeq = NoSeq
    /\ opened[1].last_event_id = Undefined

Detached(es) ==
    /\ es.readyState = CLOSED
    /\ es.closed = 1
    /\ ~es.onopen /\ ~es.onerror /\ ~es.stream /\ ~es.control

\* the response is a success with every field and an unexpired credential
Succeeds(r, now) ==
    /\ r.ok /\ r.conduit
    /\ r.token # NoToken /\ r.channel_id # Undefined /\ r.url # Undefined
    /\ ~(r.token.hasExp /\ r.token.exp * 1000 <= now)

\* C11: a parsed server_draining control event releases the connection,
\* fires onClose and starts a negotiation in the same step; that negotiation
\* is eventually answered, and when the answer is a success with an
\* unexpired credential the answering step attaches a new connection.
C11_DrainReconnects ==
    /\ [][ drain # "pending" /\ drain' = "pending"
             => /\ eventSource # Null
                /\ eventSource' = Null
                /\ Detached(conns'[eventSource])
                /\ fired' = <<Cb("onClose")>>
                /\ connecting'
                /\ inflight' = inflight + 1 ]_vars
    /\ [][ \A r \in Responses, now \in Nows :
             drain = "pending" /\ Negotiated(r, now) /\ Succeeds(r, now)
               => /\ Attaching
                  /\ conns'[eventSource'] = NewEventSource ]_vars
    /\ (drain = "pending" ~> drain = "answered")

C11_Witness ==
    /\ drain = "answered"
    /\ eventSource = 2
    /\ Detached(conns[1])
    /\ conns[2].stream

\* C12: a transport-successful response that lacks the conduit object, the
\* token, the channel_id or the url makes connect() reject with the
\* invalid-response error; no connection is attached and connecting is false.
C12_InvalidResponseRejected ==
    lastAnswer.status = "incomplete"
        => /\ lastOp = "rejected_invalid"
           /\ eventSource = Null
           /\ Held = {}
           /\ ~connecting

C12_Witness ==
    /\ lastAnswer.status = "incomplete"
    /\ lastOp = "rejected_invalid"
    /\ Len(conns) = 1
    /\ ~connecting

\* C13: a complete response whose credential carries an exp claim that is
\* not later than the current time makes connect() fire onError with the
\* credential-expired error and attach no connection.
C13_ExpiredAborts ==
    lastAnswer.status = "complete" /\ lastAnswer.expired
        => /\ eventSource = Null
           /\ fired = <<Err("Token expired at reconnect")>>

\* C14: a response with a non-success transport status makes connect()
\* reject with the negotiation-failed error without invoking onError; no
\* connection is attached and connecting is false.
C14_FailedNegotiationRejected ==
    lastAnswer.status = "failed"
        => /\ lastOp = "rejected_failed"
           /\ fired = <<>>
           /\ eventSource = Null
           /\ Held = {}
           /\ ~connecting

C14_Witness ==
    /\ lastAnswer.status = "failed"
    /\ lastOp = "rejected_failed"
    /\ fired = <<>>
    /\ hasConnected
    /\ Len(conns) = 1

\* the onClose calls among the callbacks
Closes(cbs) == SelectSeq(cbs, LAMBDA x : x.cb = "onClose")

\* C15: disconnect() with no connection held changes no state and fires no
\* callback; no EventSource is closed twice, and a step fires onClose once
\* for the EventSource it closes and not at all when it closes none.
C15_DisconnectIdempotent ==
    [][ /\ (Disconnect /\ eventSource = Null
              => UNCHANGED <<client, conns, inflight>> /\ fired' = <<>>)
        /\ \A c \in DOMAIN conns : conns'[c].closed \in {conns[c].closed, 1}
        /\ Len(Closes(fired')) =
             Cardinality({c \in DOMAIN conns : conns'[c].closed # conns[c].closed}) ]_vars

C15_Witness ==
    /\ lastOp = "disconnect_noop"
    /\ fired = <<>>
    /\ Len(conns) = 1
    /\ conns[1].closed = 1

\* C16: disconnect() with a connection held detaches its open and error
\* handlers and both topic listeners, closes it once, leaves the handle
\* absent and fires onClose.
C16_DisconnectReleases ==
    [][ Disconnect /\ eventSource # Null
          => /\ conns[eventSource].closed = 0
             /\ Detached(conns'[eventSource])
             /\ \A c \in DOMAIN conns : c # eventSource => conns'[c] = conns[c]
             /\ eventSource' = Null
             /\ fired' = <<Cb("onClose")>> ]_vars

C16_Witness ==
    /\ lastOp = "disconnect"
    /\ fired = <<Cb("onClose")>>
    /\ eventSource = Null
    /\ Len(conns) = 2
    /\ Detached(conns[2])

\* C17: disconnect() leaves resumeToken, lastSequence, seenMessageIds and
\* currentChannel unchanged.
C17_DisconnectKeepsResumeState ==
    [][ Disconnect => UNCHANGED <<lastEventId, lastSeq, seenIds, currentChannelId>> ]_vars

C17_Witness ==
    /\ lastOp = "disconnect"
    /\ lastEventId = "e1"
    /\ lastSeq # NoSeq
    /\ seenIds # {}
    /\ currentChannelId = "c2"

\* C18: a stream or control event whose data is not JSON fires onError once
\* with the parse failure and nothing else, leaves lastSequence,
\* seenMessageIds and currentChannel unchanged and leaves the connection
\* held and open to further events.
C18_ParseFailureLocal ==
    [][ lastIn'.phase = "unparsable"
          => /\ fired' = <<[cb |-> "onError", arg |-> "Failed to parse"]>>
             /\ UNCHANGED <<lastSeq, seenIds, currentChannelId, eventSource, conns>>
             /\ eventSource # Null ]_vars

C18_Witness ==
    /\ lastIn.phase = "unparsable"
    /\ lastOp = "control_parse"
    /\ fired = <<Err("Failed to parse")>>
    /\ eventSource # Null
    /\ lastSeq # NoSeq

\* C19: a PHASE_ERROR event with an unknown message_id and a sequence above
\* lastSequence fires onError once with the stream error and nothing else,
\* payload or not, and leaves the connection held.
C19_PhaseErrorReported ==
    lastIn.phase = "PHASE_ERROR" /\ ~lastIn.known /\ ~lastIn.stale
        => /\ fired = <<Err("Stream error")>>
           /\ eventSource # Null
           /\ conns[eventSource].closed = 0
           /\ conns[eventSource].stream

C19_Witness ==
    /\ lastIn.phase = "PHASE_ERROR"
    /\ lastIn.loaded
    /\ ~lastIn.known
    /\ ~lastIn.stale
    /\ fired = <<Err("Stream error")>>

\* C20 as stated: seenMessageIds never holds more than MAX_SEEN_TRACKING
\* message identifiers.
C20_SeenWithinCap == Cardinality(seenIds) <= MAX_SEEN_TRACKING

\* C21: isConnecting is true exactly while a negotiation request of
\* connect() is outstanding: false before any connect(), true from the
\* connect() that issues the request, and false again in the step in which
\* that connect() settles, whether it attached, was rejected as failed or
\* invalid, or found the credential expired.
C21_ConnectingWhileNegotiating ==
    /\ IsConnecting = (inflight > 0)
    /\ (lastAnswer.status # "-" => ~IsConnecting)
    /\ (lastOp \in {"attached_new", "attached_same", "rejected_failed",
                    "rejected_invalid", "expired"} => ~IsConnecting)
    /\ (lastOp = "connect_start" => IsConnecting)

C21_Witness ==
    /\ lastOp = "expired"
    /\ lastAnswer.status = "complete"
    /\ ~IsConnecting
    /\ inflight = 0
    /\ Len(conns) = 1

\* C22: isConnected() is true exactly when a connection is held and its
\* readyState is OPEN; it is false before the first connect, while a
\* negotiation is outstanding, while the held connection is CONNECTING or
\* CLOSED, and after disconnect().
C22_ConnectedIffOpen ==
    /\ IsConnected = (\E c \in DOMAIN conns : c = eventSource /\ conns[c].readyState = OPEN)
    /\ (Len(conns) = 0 => ~IsConnected)
    /\ (connecting => ~IsConnected)
    /\ (eventSource # Null /\ conns[eventSource].readyState \in {CONNECTING, CLOSED}
          => ~IsConnected)
    /\ (lastOp \in {"disconnect", "disconnect_noop"} => ~IsConnected)

C22_Witness ==
    /\ IsConnected
    /\ eventSource = 2
    /\ conns[1].closed = 1
    /\ conns[2].readyState = OPEN

\* the credential carries no expiry that getTokenExpiry can decode
Unreadable(token) == token.parts < 2 \/ token.body # "claims" \/ ~token.hasExp

\* C23: a complete response whose credential has fewer than two parts, a
\* payload that does not decode, or no exp claim never makes connect() fire
\* the credential-expired error: the answering step attaches a connection,
\* fires no callback and records no expiry.
C23_UnreadableNeverExpires ==
    [][ lastAnswer'.status = "complete"
          => \A r \in Responses, now \in Nows :
                 Unreadable(r.token) /\ Negotiated(r, now)
                   => /\ Attaching
                      /\ fired' = <<>>
                      /\ tokenExpiresAt' = NoExpiry
                      /\ Len(opened') = 1 ]_vars

C23_Witness ==
    /\ lastOp \in {"attached_new", "attached_same"}
    /\ opened[1].token.body = "urlsafe"
    /\ tokenExpiresAt = NoExpiry
    /\ eventSource = 2
    /\ fired = <<>>

\* C24: the EventSource is constructed with the endpoint URL of the
\* negotiation response, query included, with token and channel_id set to
\* the negotiated values, and with last_event_id set to the resume token
\* when one is held (the empty string included) and absent otherwise.
C24_UrlFromNegotiation ==
    [][ lastOp' \in {"attached_new", "attached_same"}
          => \A r \in Responses, now \in Nows :
                 Negotiated(r, now)
                   => /\ Len(opened') = 1
                      /\ opened'[1].endpoint = r.url
                      /\ opened'[1].token = r.token
                      /\ opened'[1].channel_id = r.channel_id
                      /\ opened'[1].last_event_id = lastEventId' ]_vars

C24_Witness ==
    /\ lastOp = "attached_same"
    /\ opened[1].endpoint = "https://h/events?region=eu"
    /\ opened[1].channel_id = "c2"
    /\ opened[1].last_event_id = ""
    /\ lastEventId = ""

C26_ResumeTokenAlwaysRecorded ==
    lastIn.eventId # "-" => lastEventId = lastIn.eventId

C26_Witness ==
    /\ lastOp = "stream_dup"
    /\ lastIn.eventId = ""
    /\ lastEventId = ""
    /\ lastSeq # NoSeq

\* an event of some topic is dispatched on connection c
Arrives(c) ==
    \/ \E topic \in Topics : Late(c, topic)
    \/ conns[c].control /\ \E ev \in ControlEvents : HandleControl(c, ev)
    \/ conns[c].stream /\ \E ev \in StreamEvents : HandleStream(c, ev)

\* C27: an open, error, stream or control event dispatched on a connection
\* that disconnect() has released fires no callback and changes neither the
\* client's fields (resumeToken, lastSequence, seenMessageIds and the handle
\* among them) nor any connection, also while a newer connection is held.
C27_LateEventIgnored ==
    [][ \A c \in DOMAIN conns :
          conns[c].closed > 0 /\ Arrives(c)
            => fired' = <<>> /\ UNCHANGED <<client, conns, inflight>> ]_vars

C27_Witness ==
    /\ lastOp = "late"
    /\ eventSource = 2
    /\ conns[1].closed = 1
    /\ conns[2].readyState = OPEN
    /\ lastSeq # NoSeq
    /\ lastEventId = "e1"

\* C28: an error signal of the transport on the held connection fires
\* onError with the connection error once and nothing else; the handle,
\* resumeToken, lastSequence, seenMessageIds and currentChannel are
\* unchanged, the connection is neither closed nor stripped of its handlers,
\* and no negotiation is started.
C28_TransportErrorReported ==
    [][ lastOp' = "error"
          => \A c \in DOMAIN conns, fatal \in BOOLEAN :
                 c = eventSource /\ ErrorSignal(c, fatal)
                   => /\ fired' = <<[cb |-> "onError", arg |-> "SSE connection error"]>>
                      /\ UNCHANGED <<eventSource, lastEventId, lastSeq, seenIds,
                                     currentChannelId, connecting, inflight>>
                      /\ conns'[c].closed = 0
                      /\ \A topic \in Topics : Installed(conns'[c], topic) ]_vars

C28_Witness ==
    /\ lastOp = "error"
    /\ fired = <<Err("SSE connection error")>>
    /\ eventSource = 2
    /\ conns[2].readyState = CLOSED
    /\ conns[2].closed = 0
    /\ lastSeq # NoSeq

\* C29: a control event with JSON data whose control_type is not
\* server_draining fires no callback, releases no connection, starts no
\* negotiation and changes no field of the client other than resumeToken.
C29_OtherControlIgnored ==
    [][ lastOp' \in {"control_other", "control_drain"}
          => \A c \in DOMAIN conns, ev \in ControlEvents :
                 /\ ev.data = "envelope"
                 /\ ev.control_type # "server_draining"
                 /\ HandleControl(c, ev)
                 => /\ fired' = <<>>
                    /\ UNCHANGED <<eventSource, connecting, lastSeq, seenIds, tokenExpiresAt,
                                   currentChannelId, hasConnected, conns, inflight>> ]_vars

C29_Witness ==
    /\ lastOp = "control_other"
    /\ fired = <<>>
    /\ eventSource # Null
    /\ lastEventId = "e1"
    /\ lastSeq # NoSeq

\* C30: onMessage is invoked only by a PHASE_DELTA event that carries a
\* payload; a PHASE_START event, with or without payload, and a PHASE_DELTA
\* event without payload invoke no callback.
C30_OnlyLoadedDelta ==
    /\ (Payloads_of(fired) # <<>> => lastIn.phase = "PHASE_DELTA" /\ lastIn.loaded)
    /\ (\A i \in DOMAIN fired : fired[i].cb = "onMessage" => fired[i].arg \in Payloads)
    /\ (lastIn.phase = "PHASE_START" => fired = <<>>)
    /\ (lastIn.phase = "PHASE_DELTA" /\ ~lastIn.loaded => fired = <<>>)

C30_Witness ==
    /\ lastIn.phase = "PHASE_START"
    /\ lastIn.loaded
    /\ ~lastIn.known
    /\ ~lastIn.stale
    /\ lastOp = "stream_ok"
    /\ fired = <<>>

\* C32 as stated: no handler throws: whatever data an inbound event
\* carries, the handler returns normally.
C32_HandlersNeverThrow == \A i \in DOMAIN fired : fired[i].cb # "throw"

\* C35: every EventSource the client has created is the held one or has
\* been closed; no connection is held while a negotiation is outstanding;
\* and a step that attaches a connection starts from no held connection.
C35_NoConnectionLeaked ==
    [][ /\ \A c \in DOMAIN conns' : c = eventSource' \/ conns'[c].closed > 0
        /\ (inflight' > 0 => eventSource' = Null)
        /\ (Len(conns') > Len(conns) => eventSource = Null /\ eventSource' = Len(conns'))
        /\ (eventSource # Null => eventSource' \in {eventSource, Null}) ]_vars

C35_Witness ==
    /\ Len(conns) = 2
    /\ eventSource = 2
    /\ conns[1].closed = 1
    /\ conns[2].closed = 0
    /\ conns[2].readyState = CONNECTING
    /\ inflight = 0

\* C36: a data-stream event other than PHASE_END with an unknown message_id
\* and a sequence <= lastSequence fires nothing, leaves lastSequence
\* unchanged and records its message_id; an event other than PHASE_END that
\* follows it with the same message_id, whatever its sequence, fires
\* nothing and changes neither lastSequence nor seenMessageIds.
C36_StaleIdRecorded ==
    [][ /\ (lastIn'.stale /\ ~lastIn'.known /\ lastIn'.phase \in NonEnd
              => /\ lastIn'.id \in seenIds'
                 /\ lastSeq' = lastSeq
                 /\ fired' = <<>>)
        /\ (lastIn.stale /\ ~lastIn.known /\ lastIn.phase \in NonEnd
              /\ lastIn'.phase \in NonEnd /\ lastIn'.id = lastIn.id
              => /\ lastIn'.known
                 /\ fired' = <<>>
                 /\ lastSeq' = lastSeq
                 /\ seenIds' = seenIds) ]_vars

C36_Witness ==
    /\ lastOp = "stream_stale"
    /\ ~lastIn.known
    /\ lastIn.stale
    /\ lastIn.phase = "PHASE_DELTA"
    /\ lastIn.loaded
    /\ lastIn.id = "m2"
    /\ lastSeq = 1
    /\ seenIds = {"m1", "m2"}

\* C37: while currentChannel is unchanged lastSequence never decreases and
\* never becomes absent; an accepted event sets it to its own sequence,
\* which is above every sequence accepted before; it becomes absent only in
\* a connect() that adopts another channel; PHASE_END events, duplicates and
\* parse failures leave it unchanged.
C37_LastSequenceMonotonic ==
    [][ /\ (currentChannelId' = currentChannelId /\ lastSeq # NoSeq => lastSeq' >= lastSeq)
        /\ (lastSeq' # lastSeq /\ lastSeq' # NoSeq
              => lastOp' = "stream_ok" /\ lastSeq' > lastSeq)
        /\ (lastSeq # NoSeq /\ lastSeq' = NoSeq
              => lastOp' = "attached_new" /\ currentChannelId' # currentChannelId)
        /\ (lastOp' \in {"stream_end", "stream_dup", "stream_parse", "control_parse"}
              => lastSeq' = lastSeq) ]_vars

C37_Witness ==
    /\ lastOp = "stream_ok"
    /\ lastSeq = MaxSeq
    /\ Cardinality(seenIds) >= 2
    /\ eventSource = 2

\* C34: a connect() that ends with the credential-expired error leaves
\* currentChannel, resumeToken, lastSequence and seenMessageIds unchanged,
\* also when the response names a channel other than currentChannel.
C34_ExpiredKeepsResumeState ==
    [][ lastOp' = "expired"
          => /\ lastAnswer'.status = "complete"
             /\ fired' = <<[cb |-> "onError", arg |-> "Token expired at reconnect"]>>
             /\ UNCHANGED <<currentChannelId, lastEventId, lastSeq, seenIds>> ]_vars

C34_Witness ==
    /\ lastOp = "expired"
    /\ lastAnswer.channel_id = "c2"
    /\ currentChannelId = "c1"
    /\ lastEventId = "e1"
    /\ lastSeq # NoSeq
    /\ seenIds # {}

\* C31 as stated: when the negotiation of a connect() fails, the
\* application receives the rejection or an onError call, also when the
\* connect() is the automatic one that follows a server_draining event.
C31_ReconnectFailureSurfaced ==
    rejected # "-" => rejected = "caller" \/ \E i \in DOMAIN fired : fired[i].cb = "onError"

\* C33 as stated: under useStream, once enabled is false and its effect has
\* run, the client holds no connection.
C33_DisabledStaysDetached == ~enabled /\ ~effectDue => eventSource = Null

\* C38 as stated: under useStream, a client that replaces another while
\* enabled is true is eventually connected, unless enabled turns false
\* first.
C38_ReplacementConnects == awaited ~> ~awaited

====
